---- MODULE Spec2Model ----
(***************************************************************************)
(* The power-balancing control loop of the Zendure manager                 *)
(* (custom_components/zendure_ha/zendurermanager.py, class ZendureManager).*)
(*                                                                         *)
(* Program state: operation, hypers, _mqtt, next_update, _hypers_charge,   *)
(* _hypers_discharge, _max_charge, _max_discharge and the state of the     *)
(* sensors of every hyper.  Every handler of the class is one action.      *)
(* The variables handler, inp, published, call, recompute, raised, escaped *)
(* and scheduled record what the last handler was given and what it did    *)
(* (the messages it handed to the transport, the allocator call it logged, *)
(* the exceptions it met); they are rewritten by every action.  mode_set   *)
(* records that the status select has called update_operation.             *)
(***************************************************************************)
EXTENDS Integers, Sequences, FiniteSets, TLC

(* ------------------------------ bounds --------------------------------- *)
\* Number of hypers the api returns (the catalog, in dict order 1..NumDev).
NumDev == 2
\* The clock runs from 0 to MaxNow minutes, in steps of TimeStep minutes.
MaxNow == 6
TimeStep == 3
\* A publish may fail at the k-th message of one handler, k in 1..MaxFail.
MaxFail == 2

(* ------------------------- program constants --------------------------- *)
\* timedelta(minutes=5): the freshness window of the ranked lists.
FreshMinutes == 5
\* "if charge < 400" / "if discharge < 400": one device below, all from it on.
Threshold == 400
\* operation: index into the options of the status select.
OpOff == 0
OpManual == 1
OpSmart == 2
\* state of a sensor that never got a numeric value (native value None).
Unknown == -1

Devices == 1..NumDev
Fields == {"electricLevel", "minSoc", "socSet", "inputLimit", "outputLimit",
           "gridInputPower", "outputHomePower"}

VARIABLES
    operation,          \* self.operation
    hypers,             \* self.hypers, as the sequence of its keys (dict order)
    mqtt,               \* self._mqtt is set
    now,                \* datetime.now(), minutes
    next_update,        \* self.next_update, minutes
    hypers_charge,      \* self._hypers_charge
    hypers_discharge,   \* self._hypers_discharge
    max_charge,         \* self._max_charge
    max_discharge,      \* self._max_discharge
    sensors,            \* sensors[h][f]: h.sensors[f].state
    handler,            \* the handler that ran last
    inp,                \* what it was given
    published,          \* the messages it handed to the transport, in order
    call,               \* the allocator call it logged
    recompute,          \* what it did to the ranked lists
    raised,             \* an exception was raised inside it
    escaped,            \* an exception left it
    scheduled,          \* it called self._schedule_refresh()
    mode_set            \* update_operation has been called since construction

prog == <<operation, hypers, mqtt, next_update, hypers_charge, hypers_discharge,
          max_charge, max_discharge, sensors>>
vars == <<operation, hypers, mqtt, now, next_update, hypers_charge,
          hypers_discharge, max_charge, max_discharge, sensors,
          handler, inp, published, call, recompute, raised, escaped,
          scheduled, mode_set>>

(* ------------------------------ helpers -------------------------------- *)
Known(v) == v # Unknown

State(h, f) == sensors[h][f]

RECURSIVE SumOver(_, _)
\* sum(h.sensors[f].state for h in list)
SumOver(list, f) ==
    IF list = <<>> THEN 0 ELSE State(Head(list), f) + SumOver(Tail(list), f)

\* sum(...) raises TypeError when one of the states is None
SumRaises(list, f) == \E i \in 1..Len(list) : ~Known(State(list[i], f))

\* int(x / n) for n > 0: true division, then truncation toward zero
IntDiv(x, n) == IF x >= 0 THEN x \div n ELSE -((-x) \div n)

\* int(float(state)) of a reading given in tenths of a watt
IntOfFloat(tenths) == IntDiv(tenths, 10)

NoCall == [kind |-> "none", watts |-> 0]

(* --------------------- Hyper2000.update_power -------------------------- *)
\* The control message update_power(client, chargetype, chargepower, outpower)
\* publishes on the write topic of hyper h.
Command(h, flag, chargeWatts, dischargeWatts) ==
    [topic |-> "write", dev |-> h, chargeFlag |-> flag,
     chargeWatts |-> chargeWatts, dischargeWatts |-> dischargeWatts]

\* self._mqtt.publish(h._topic_read, '{"properties": ["getAll"]}')
GetAll(h) ==
    [topic |-> "read", dev |-> h, chargeFlag |-> 0,
     chargeWatts |-> 0, dischargeWatts |-> 0]

\* The transport takes the messages of one handler in order; with failAt = k > 0
\* the k-th publish raises, so the messages before it are out and the rest is
\* never reached.
Sent(msgs, failAt) ==
    IF failAt = 0 \/ failAt > Len(msgs) THEN msgs ELSE SubSeq(msgs, 1, failAt - 1)

PublishRaises(msgs, failAt) == failAt # 0 /\ failAt <= Len(msgs)

(* ------------------------- ranking (lines 134-146) --------------------- *)
Key(h) == State(h, "electricLevel")

RECURSIVE InsertAsc(_, _)
\* stable insertion: after every element whose key is not larger
InsertAsc(s, h) ==
    IF s = <<>> THEN <<h>>
    ELSE IF Key(Head(s)) <= Key(h) THEN <<Head(s)>> \o InsertAsc(Tail(s), h)
    ELSE <<h>> \o s

RECURSIVE InsertDesc(_, _)
\* stable insertion for reverse=True: after every element whose key is not smaller
InsertDesc(s, h) ==
    IF s = <<>> THEN <<h>>
    ELSE IF Key(Head(s)) >= Key(h) THEN <<Head(s)>> \o InsertDesc(Tail(s), h)
    ELSE <<h>> \o s

RECURSIVE SortAsc(_)
\* sorted(list, key=electricLevel)
SortAsc(list) ==
    IF list = <<>> THEN <<>>
    ELSE InsertAsc(SortAsc(SubSeq(list, 1, Len(list) - 1)), list[Len(list)])

\* reverse=True forgotten
SortDescNoReverse(list) == SortAsc(list)

RECURSIVE SortDesc(_)
\* sorted(list, key=electricLevel, reverse=True)
SortDesc(list) ==
    IF list = <<>> THEN <<>>
    ELSE InsertDesc(SortDesc(SubSeq(list, 1, Len(list) - 1)), list[Len(list)])

\* h.sensors["electricLevel"].state > float(h.sensors["minSoc"].state)
CanDischarge(h) == State(h, "electricLevel") > State(h, "minSoc")

\* h.sensors["electricLevel"].state < float(h.sensors["socSet"].state)
CanCharge(h) == State(h, "electricLevel") < State(h, "socSet")

\* float(None), or None compared with a float, raises TypeError
DischargeFilterRaises ==
    \E i \in 1..Len(hypers) :
        ~Known(State(hypers[i], "electricLevel")) \/ ~Known(State(hypers[i], "minSoc"))

ChargeFilterRaises ==
    \E i \in 1..Len(hypers) :
        ~Known(State(hypers[i], "electricLevel")) \/ ~Known(State(hypers[i], "socSet"))

RankDischarge == SortDesc(SelectSeq(hypers, CanDischarge))

RankCharge == SortAsc(SelectSeq(hypers, CanCharge))

\* only the deadline is looked at
StaleDeadlineOnly == next_update < now

\* the condition of line 134
Stale == (hypers_charge = <<>> /\ hypers_charge = <<>>) \/ next_update < now

\* Lines 135-146, statement by statement: the first statement that raises ends
\* the recompute and leaves the assignments before it in place.
Recompute ==
    LET old == [deadline |-> now + FreshMinutes,
                dis |-> hypers_discharge, chg |-> hypers_charge,
                mc |-> max_charge, md |-> max_discharge, result |-> "failed"]
    IN  IF DischargeFilterRaises THEN old
        ELSE LET s1 == [old EXCEPT !.dis = RankDischarge]
             IN  IF ChargeFilterRaises THEN s1
                 ELSE LET s2 == [s1 EXCEPT !.chg = RankCharge]
                      IN  IF SumRaises(s2.chg, "inputLimit") THEN s2
                          ELSE LET s3 == [s2 EXCEPT !.mc = SumOver(s2.chg, "inputLimit")]
                               IN  IF SumRaises(s3.dis, "outputLimit") THEN s3
                                   ELSE [s3 EXCEPT
                                           !.md = SumOver(s3.dis, "outputLimit"),
                                           !.result = "ok"]

\* The ranked fleet the rest of the handler works with.
Fleet ==
    IF Stale THEN Recompute
    ELSE [deadline |-> next_update,
          dis |-> hypers_discharge, chg |-> hypers_charge,
          mc |-> max_charge, md |-> max_discharge, result |-> "none"]

(* ------------------------ allocation (lines 173-202) ------------------- *)
\* below the threshold the other candidates are left running
ChargingCmdsNoStop(list, charge) ==
    IF list = <<>> THEN <<>>
    ELSE IF charge < Threshold THEN <<Command(list[1], 1, charge, 0)>>
    ELSE [i \in 1..Len(list) |->
            Command(list[i], 1, IntDiv(charge, Len(list)), 0)]

\* upd_charging(charge), as the update_power calls it makes, in order
ChargingCmds(list, charge) ==
    IF list = <<>> THEN <<>>
    ELSE IF charge < Threshold
         THEN [i \in 1..Len(list) |->
                 IF i = 1 THEN Command(list[1], 1, charge, 0)
                 ELSE Command(list[i], 0, 0, 0)]
         ELSE [i \in 1..Len(list) |->
                 Command(list[i], 1, IntDiv(charge, Len(list)), 0)]

\* "discharge <= 400" in place of "discharge < 400"
DischargingCmdsLe(list, discharge) ==
    IF list = <<>> THEN <<>>
    ELSE IF discharge <= Threshold
         THEN [i \in 1..Len(list) |->
                 IF i = 1 THEN Command(list[1], 0, 0, discharge)
                 ELSE Command(list[i], 0, 0, 0)]
         ELSE [i \in 1..Len(list) |->
                 Command(list[i], 0, 0, IntDiv(discharge, Len(list)))]

\* upd_discharging(discharge), as the update_power calls it makes, in order
DischargingCmds(list, discharge) ==
    IF list = <<>> THEN <<>>
    ELSE IF discharge < Threshold
         THEN [i \in 1..Len(list) |->
                 IF i = 1 THEN Command(list[1], 0, 0, discharge)
                 ELSE Command(list[i], 0, 0, 0)]
         ELSE [i \in 1..Len(list) |->
                 Command(list[i], 0, 0, IntDiv(discharge, Len(list)))]

(* ------------------- the decision (lines 152-163) ---------------------- *)
\* the sign of the produced meter given to the consumed one
DischargeSignSwapped(src) == IF src = "consumed" THEN -1 ELSE 1

\* power * (1 if entity_id == self.consumed else -1)
DischargeSign(src) == IF src = "consumed" THEN 1 ELSE -1

\* power * (-1 if entity_id == self.consumed else 1)
ChargeSign(src) == IF src = "consumed" THEN -1 ELSE 1

\* the charging aggregate looked at before the discharging one
DecideChargeFirst(src, power, chg, dis) ==
    IF SumRaises(chg, "gridInputPower") THEN [raises |-> TRUE, call |-> NoCall]
    ELSE IF SumOver(chg, "gridInputPower") > 0
    THEN [raises |-> FALSE,
          call |-> [kind |-> "charge",
                    watts |-> SumOver(chg, "gridInputPower") + power * ChargeSign(src)]]
    ELSE IF SumRaises(dis, "outputHomePower") THEN [raises |-> TRUE, call |-> NoCall]
    ELSE IF SumOver(dis, "outputHomePower") > 0
    THEN [raises |-> FALSE,
          call |-> [kind |-> "discharge",
                    watts |-> SumOver(dis, "outputHomePower") + power * DischargeSign(src)]]
    ELSE IF src = "produced"
    THEN [raises |-> FALSE, call |-> [kind |-> "charge", watts |-> power]]
    ELSE [raises |-> FALSE, call |-> [kind |-> "discharge", watts |-> power]]

\* Lines 156-163 for a non-zero power on the lists chg and dis: the allocator
\* that is called and with what, or the TypeError of a sum over an unknown state.
Decide(src, power, chg, dis) ==
    IF SumRaises(dis, "outputHomePower") THEN [raises |-> TRUE, call |-> NoCall]
    ELSE IF SumOver(dis, "outputHomePower") > 0
    THEN [raises |-> FALSE,
          call |-> [kind |-> "discharge",
                    watts |-> SumOver(dis, "outputHomePower") + power * DischargeSign(src)]]
    ELSE IF SumRaises(chg, "gridInputPower") THEN [raises |-> TRUE, call |-> NoCall]
    ELSE IF SumOver(chg, "gridInputPower") > 0
    THEN [raises |-> FALSE,
          call |-> [kind |-> "charge",
                    watts |-> SumOver(chg, "gridInputPower") + power * ChargeSign(src)]]
    ELSE IF src = "produced"
    THEN [raises |-> FALSE, call |-> [kind |-> "charge", watts |-> power]]
    ELSE [raises |-> FALSE, call |-> [kind |-> "discharge", watts |-> power]]

\* the commands of a charge call sent to every hyper of the catalog
CallCmdsAllHypers(c, chg, dis) ==
    IF c.kind = "charge" THEN ChargingCmds(hypers, c.watts)
    ELSE IF c.kind = "discharge" THEN DischargingCmds(dis, c.watts)
    ELSE <<>>

\* the update_power calls of the allocator call c
CallCmds(c, chg, dis) ==
    IF c.kind = "charge" THEN ChargingCmds(chg, c.watts)
    ELSE IF c.kind = "discharge" THEN DischargingCmds(dis, c.watts)
    ELSE <<>>

(* ------------------------------ inputs --------------------------------- *)
\* Readings of the two meters, in tenths of a watt: 0.5 W, 99.5 W, 100 W, 400 W.
Readings == {5, 995, 1000, 4000}

\* new_state.state of a signal event: a number, or a text such as "unavailable"
Signals ==
    [numeric : {TRUE}, tenths : Readings] \cup {[numeric |-> FALSE, tenths |-> 0]}

Sources == {"consumed", "produced"}

FailPoints == 0..MaxFail

Levels == {20, 60, 100}

\* The answer of a hyper to getAll: every property, at rest.
FullReport(level) ==
    [electricLevel |-> level, minSoc |-> 20, socSet |-> 100,
     inputLimit |-> 1200, outputLimit |-> 800,
     gridInputPower |-> 0, outputHomePower |-> 0]

\* Property reports of a hyper: the payload without its deviceId.
Reports == {FullReport(v) : v \in {20, 100}}

\* deviceId of an inbound payload: 0 stands for a payload without one,
\* NumDev + 1 for the id of a device that is not in the catalog.
DeviceIds == 0..(NumDev + 1)

\* Inbound messages: text that json.loads rejects, JSON that is no object,
\* and objects.
Messages ==
    [json : {"invalid", "array"}, deviceId : {0}, report : {FullReport(60)}]
    \cup [json : {"object"}, deviceId : DeviceIds, report : Reports]

(* ------------------------------ actions -------------------------------- *)
Init ==
    /\ operation = OpOff
    /\ hypers = <<>>
    /\ mqtt = FALSE
    /\ now = 0
    /\ next_update = 0 + FreshMinutes
    /\ hypers_charge = <<>>
    /\ hypers_discharge = <<>>
    /\ max_charge = 0
    /\ max_discharge = 0
    /\ sensors = [h \in Devices |-> [f \in Fields |-> Unknown]]
    /\ handler = "__init__"
    /\ inp = [none |-> TRUE]
    /\ published = <<>>
    /\ call = NoCall
    /\ recompute = "none"
    /\ raised = FALSE
    /\ escaped = FALSE
    /\ scheduled = FALSE
    /\ mode_set = FALSE

\* initialize(): the api connects, returns the catalog and the mqtt client.
Initialize ==
    /\ ~mqtt
    /\ hypers' = [i \in 1..NumDev |-> i]
    /\ mqtt' = TRUE
    /\ handler' = "initialize"
    /\ inp' = [none |-> TRUE]
    /\ published' = <<>>
    /\ call' = NoCall
    /\ recompute' = "none"
    /\ raised' = FALSE
    /\ escaped' = FALSE
    /\ scheduled' = FALSE
    /\ UNCHANGED mode_set
    /\ UNCHANGED <<operation, now, next_update, hypers_charge, hypers_discharge,
                   max_charge, max_discharge, sensors>>

\* Time passes.
AdvanceTime ==
    /\ now + TimeStep <= MaxNow
    /\ now' = now + TimeStep
    /\ handler' = "clock"
    /\ inp' = [none |-> TRUE]
    /\ published' = <<>>
    /\ call' = NoCall
    /\ recompute' = "none"
    /\ raised' = FALSE
    /\ escaped' = FALSE
    /\ scheduled' = FALSE
    /\ UNCHANGED mode_set
    /\ UNCHANGED prog

\* "if operation == 0" in place of "if operation != 2"
OperationCmdsOffOnly(op) ==
    IF op = OpOff THEN [i \in 1..Len(hypers) |-> Command(hypers[i], 0, 0, 0)]
    ELSE <<>>

\* the update_power calls of update_operation(op)
OperationCmds(op) ==
    IF op # OpSmart THEN [i \in 1..Len(hypers) |-> Command(hypers[i], 0, 0, 0)]
    ELSE <<>>

\* self.operation assigned after the loop, so not at all when a publish raises
UpdateOperationSetLast(op, failAt) ==
    /\ mqtt
    /\ operation' = IF PublishRaises(OperationCmds(op), failAt) THEN operation ELSE op
    /\ handler' = "update_operation"
    /\ inp' = [op |-> op, from |-> operation]
    /\ published' = Sent(OperationCmds(op), failAt)
    /\ call' = NoCall
    /\ recompute' = "none"
    /\ raised' = PublishRaises(OperationCmds(op), failAt)
    /\ escaped' = raised'
    /\ scheduled' = FALSE
    /\ mode_set' = TRUE
    /\ UNCHANGED <<hypers, mqtt, now, next_update, hypers_charge, hypers_discharge,
                   max_charge, max_discharge, sensors>>

\* update_operation(op), called by the status select (created by initialize)
UpdateOperation(op, failAt) ==
    /\ mqtt
    /\ operation' = op
    /\ handler' = "update_operation"
    /\ inp' = [op |-> op, from |-> operation]
    /\ published' = Sent(OperationCmds(op), failAt)
    /\ call' = NoCall
    /\ recompute' = "none"
    /\ raised' = PublishRaises(OperationCmds(op), failAt)
    /\ escaped' = raised'
    /\ scheduled' = FALSE
    /\ mode_set' = TRUE
    /\ UNCHANGED <<hypers, mqtt, now, next_update, hypers_charge, hypers_discharge,
                   max_charge, max_discharge, sensors>>

\* only the first hyper is polled
RefreshMsgsFirstOnly ==
    IF mqtt /\ hypers # <<>> THEN <<GetAll(hypers[1])>> ELSE <<>>

\* the publishes of _refresh_data
RefreshMsgs ==
    IF mqtt THEN [i \in 1..Len(hypers) |-> GetAll(hypers[i])] ELSE <<>>

\* scheduled inside the try block, after the publishes
ScheduledInTry(failed) == ~failed

\* self._schedule_refresh() of line 121, after the try statement: reached
\* whether or not a publish failed
ScheduledAfterTry(failed) == TRUE

\* _refresh_data(): the poll tick of the coordinator
RefreshData(failAt) ==
    /\ handler' = "_refresh_data"
    /\ inp' = [none |-> TRUE]
    /\ published' = Sent(RefreshMsgs, failAt)
    /\ call' = NoCall
    /\ recompute' = "none"
    /\ raised' = PublishRaises(RefreshMsgs, failAt)
    /\ escaped' = FALSE
    /\ scheduled' = ScheduledAfterTry(raised')
    /\ UNCHANGED <<now, mode_set>>
    /\ UNCHANGED prog

\* "import traceback" is missing from lines 3-19, so line 171 raises NameError
\* inside the except block and the exception leaves the handler.
TracebackImported == FALSE

\* the "== 0: return" of lines 152-153 left out
SmartMatchNoZeroCheck(src, sig) ==
    LET f == Fleet
        quiet == [fleet |-> f, call |-> NoCall, cmds |-> <<>>, raises |-> FALSE,
                  read |-> [none |-> TRUE]]
    IN  IF f.result = "failed" THEN [quiet EXCEPT !.raises = TRUE]
        ELSE IF ~sig.numeric
        THEN [quiet EXCEPT !.raises = TRUE, !.read = [numeric |-> FALSE]]
        ELSE LET power == IntOfFloat(sig.tenths)
                 d == Decide(src, power, f.chg, f.dis)
                 read == [numeric |-> TRUE, power |-> power, src |-> src]
             IN  IF d.raises THEN [quiet EXCEPT !.raises = TRUE, !.read = read]
                 ELSE [quiet EXCEPT !.call = d.call,
                                    !.cmds = CallCmds(d.call, f.chg, f.dis),
                                    !.read = read]

\* What _update_energy does in "case 2" (lines 133-165) with a signal sig of
\* source src: the ranked fleet it leaves, the allocator call, the update_power
\* calls, whether a statement before the calls raised, and what it read of
\* the event on the way (new_state.state at line 152, entity_id at 157-160).
SmartMatch(src, sig) ==
    LET f == Fleet
        quiet == [fleet |-> f, call |-> NoCall, cmds |-> <<>>, raises |-> FALSE,
                  read |-> [none |-> TRUE]]
    IN  IF f.result = "failed" THEN [quiet EXCEPT !.raises = TRUE]
        ELSE IF ~sig.numeric
        THEN [quiet EXCEPT !.raises = TRUE, !.read = [numeric |-> FALSE]]
        ELSE IF IntOfFloat(sig.tenths) = 0
        THEN [quiet EXCEPT !.read = [numeric |-> TRUE, power |-> 0]]
        ELSE LET power == IntOfFloat(sig.tenths)
                 d == Decide(src, power, f.chg, f.dis)
                 read == [numeric |-> TRUE, power |-> power, src |-> src]
             IN  IF d.raises THEN [quiet EXCEPT !.raises = TRUE, !.read = read]
                 ELSE [quiet EXCEPT !.call = d.call,
                                    !.cmds = CallCmds(d.call, f.chg, f.dis),
                                    !.read = read]

\* manual power operation falling into the smart branch
SmartCaseNotOff(op) == op # OpOff

\* "match self.operation: case 2": the branch of smart power matching
SmartCase(op) == op = OpSmart

\* _update_energy(event): a state change of the consumed or the produced entity
UpdateEnergy(src, sig, failAt) ==
    /\ handler' = "_update_energy"
    /\ IF SmartCase(operation)
       THEN LET r == SmartMatch(src, sig)
            IN  /\ next_update' = r.fleet.deadline
                /\ hypers_discharge' = r.fleet.dis
                /\ hypers_charge' = r.fleet.chg
                /\ max_charge' = r.fleet.mc
                /\ max_discharge' = r.fleet.md
                /\ recompute' = r.fleet.result
                /\ call' = r.call
                /\ inp' = r.read
                /\ published' = Sent(r.cmds, failAt)
                /\ raised' = (r.raises \/ PublishRaises(r.cmds, failAt))
       ELSE /\ UNCHANGED <<next_update, hypers_discharge, hypers_charge,
                           max_charge, max_discharge>>
            /\ recompute' = "none"
            /\ call' = NoCall
            /\ inp' = [none |-> TRUE]
            /\ published' = <<>>
            /\ raised' = FALSE
    /\ escaped' = (raised' /\ ~TracebackImported)
    /\ scheduled' = FALSE
    /\ UNCHANGED <<operation, hypers, mqtt, now, sensors, mode_set>>

\* ZendureSensor.update_value(value) for a sensor without template and a
\* numeric value: the state becomes int(value)
UpdateValue(old, value) == value

\* Hyper2000.handle_message(topic, payload): the properties the payload
\* carries are handed to their sensors, the others keep their state.
HandleMessage(h, report) ==
    [sensors EXCEPT ![h] =
        [f \in Fields |->
            IF f \in DOMAIN report THEN UpdateValue(sensors[h][f], report[f])
            ELSE sensors[h][f]]]

\* json.loads raises on invalid text; payload.get raises on JSON that is no object
ParseRaises(m) == m.json # "object"

\* an id that is not in the catalog handed to the first hyper
LookupFallback(m) ==
    IF m.deviceId = 0 THEN 0
    ELSE IF \E i \in 1..Len(hypers) : hypers[i] = m.deviceId THEN m.deviceId
    ELSE hypers[1]

\* self.hypers.get(payload.get("deviceId")): 0 stands for None
Lookup(m) ==
    IF m.deviceId = 0 THEN 0
    ELSE IF \E i \in 1..Len(hypers) : hypers[i] = m.deviceId THEN m.deviceId
    ELSE 0

\* on_message(client, userdata, msg): called by the mqtt client
OnMessage(m) ==
    /\ mqtt
    /\ handler' = "on_message"
    /\ inp' = [json |-> m.json, deviceId |-> m.deviceId]
    /\ published' = <<>>
    /\ call' = NoCall
    /\ recompute' = "none"
    /\ raised' = ParseRaises(m)
    /\ escaped' = FALSE
    /\ scheduled' = FALSE
    /\ UNCHANGED mode_set
    /\ sensors' = IF ~ParseRaises(m) /\ Lookup(m) # 0
                  THEN HandleMessage(Lookup(m), m.report)
                  ELSE sensors
    /\ UNCHANGED <<operation, hypers, mqtt, now, next_update, hypers_charge,
                   hypers_discharge, max_charge, max_discharge>>

Next ==
    \/ Initialize
    \/ AdvanceTime
    \/ \E op \in {OpOff, OpManual, OpSmart} : \E failAt \in FailPoints :
          UpdateOperation(op, failAt)
    \/ \E failAt \in FailPoints : RefreshData(failAt)
    \/ \E src \in Sources : \E sig \in Signals : \E failAt \in FailPoints :
          UpdateEnergy(src, sig, failAt)
    \/ \E m \in Messages : OnMessage(m)

Spec == Init /\ [][Next]_vars

(* ------------- ranking and allocation over given device states --------- *)
\* States of one hyper that inbound reports lead to: nothing received yet;
\* every property known, at rest, charging or discharging; socSet still
\* missing; the two limits still missing.
DeviceStates ==
    {[f \in Fields |-> Unknown]}
    \cup {[f \in Fields |->
             IF f = "gridInputPower" THEN flow[1]
             ELSE IF f = "outputHomePower" THEN flow[2]
             ELSE FullReport(level)[f]] :
          level \in Levels, flow \in {<<0, 0>>, <<300, 0>>, <<0, 300>>}}
    \cup {[f \in Fields |-> IF f = "socSet" THEN Unknown ELSE FullReport(60)[f]]}
    \cup {[f \in Fields |->
             IF f \in {"inputLimit", "outputLimit"} THEN Unknown
             ELSE FullReport(60)[f]]}

\* The manager in smart matching, before its first signal, with the hypers
\* in any of these states.
InitFleet ==
    /\ operation = OpSmart
    /\ hypers = [i \in 1..NumDev |-> i]
    /\ mqtt = TRUE
    /\ now = 0
    /\ next_update = 0 + FreshMinutes
    /\ hypers_charge = <<>>
    /\ hypers_discharge = <<>>
    /\ max_charge = 0
    /\ max_discharge = 0
    /\ sensors \in [Devices -> DeviceStates]
    /\ handler = "update_operation"
    /\ inp = [op |-> OpSmart, from |-> OpOff]
    /\ published = <<>>
    /\ call = NoCall
    /\ recompute = "none"
    /\ raised = FALSE
    /\ escaped = FALSE
    /\ scheduled = FALSE
    /\ mode_set = TRUE

\* Signals and the clock only; every publish is taken by the transport.
NextFleet ==
    \/ AdvanceTime
    \/ \E src \in Sources : \E sig \in Signals : UpdateEnergy(src, sig, 0)

SpecFleet == InitFleet /\ [][NextFleet]_vars

(* ------------------------------ properties ----------------------------- *)
Members(list) == {list[i] : i \in 1..Len(list)}

Level(h) == sensors[h]["electricLevel"]

ZeroFlow(c) ==
    c.topic = "write" /\ c.chargeFlag = 0 /\ c.chargeWatts = 0 /\ c.dischargeWatts = 0

\* electricLevel, minSoc and socSet of h have all been reported
RankingKnown(h) ==
    /\ Known(sensors[h]["electricLevel"])
    /\ Known(sensors[h]["minSoc"])
    /\ Known(sensors[h]["socSet"])

\* the candidate list the allocator call of the last handler worked on
Candidates ==
    IF call.kind = "charge" THEN hypers_charge ELSE hypers_discharge

\* the watts a command carries in the direction of the allocator call
Watts(c) == IF call.kind = "charge" THEN c.chargeWatts ELSE c.dischargeWatts

RECURSIVE SumWatts(_)
SumWatts(cmds) == IF cmds = <<>> THEN 0 ELSE Watts(Head(cmds)) + SumWatts(Tail(cmds))

\* C1: a mode-set to Off or Manual (from SmartMatching or from any other mode)
\* whose publishes the transport takes sends one zero-flow command to every
\* known device, each exactly once, and nothing else.
C1_AllStop ==
    (handler = "update_operation" /\ inp.op \in {OpOff, OpManual} /\ ~raised) =>
        /\ Len(published) = NumDev
        /\ \A i \in 1..Len(published) : ZeroFlow(published[i])
        /\ \A d \in Devices :
              Cardinality({i \in 1..Len(published) : published[i].dev = d}) = 1

C1_Witness ==
    /\ handler = "update_operation"
    /\ inp.from = OpSmart
    /\ inp.op = OpOff
    /\ ~raised
    /\ Len(published) = NumDev

\* C2: when electricLevel, minSoc and socSet of every device are known, the
\* lists a recompute leaves are: chargeable = exactly the devices with
\* electricLevel < socSet, ascending by electricLevel; dischargeable = exactly
\* the devices with electricLevel > minSoc, descending by electricLevel.
C2_Ranking ==
    (/\ handler = "_update_energy"
     /\ recompute # "none"
     /\ \A h \in Devices : RankingKnown(h)) =>
        /\ Members(hypers_charge) =
              {h \in Devices : sensors[h]["electricLevel"] < sensors[h]["socSet"]}
        /\ Cardinality(Members(hypers_charge)) = Len(hypers_charge)
        /\ \A i, j \in 1..Len(hypers_charge) :
              i < j => Level(hypers_charge[i]) <= Level(hypers_charge[j])
        /\ Members(hypers_discharge) =
              {h \in Devices : sensors[h]["electricLevel"] > sensors[h]["minSoc"]}
        /\ Cardinality(Members(hypers_discharge)) = Len(hypers_discharge)
        /\ \A i, j \in 1..Len(hypers_discharge) :
              i < j => Level(hypers_discharge[i]) >= Level(hypers_discharge[j])

\* a recompute that had to reorder both lists and to leave a device out of one
C2_Witness ==
    /\ handler = "_update_energy"
    /\ recompute = "ok"
    /\ Len(hypers_charge) = 2
    /\ Level(hypers_charge[1]) < Level(hypers_charge[2])
    /\ hypers_charge[1] > hypers_charge[2]
    /\ Len(hypers_discharge) = 1

\* C3: after a recompute a device whose electricLevel, minSoc or socSet is
\* still unknown is in neither list, the lists hold the other devices by the
\* eligibility rule, and no command of the decision goes to an unknown device.
C3_UnknownExcluded ==
    (handler = "_update_energy" /\ recompute # "none") =>
        /\ Members(hypers_charge) =
              {h \in Devices : RankingKnown(h) /\
                               sensors[h]["electricLevel"] < sensors[h]["socSet"]}
        /\ Members(hypers_discharge) =
              {h \in Devices : RankingKnown(h) /\
                               sensors[h]["electricLevel"] > sensors[h]["minSoc"]}
        /\ \A i \in 1..Len(published) : RankingKnown(published[i].dev)

\* C4: an allocator call with totalWatts < 400 on a non-empty candidate list
\* commands the rank-0 candidate with all of totalWatts and every other
\* candidate, in rank order, with zero flow.
C4_SingleDevice ==
    (/\ handler = "_update_energy"
     /\ call.kind # "none"
     /\ call.watts < Threshold
     /\ Candidates # <<>>) =>
        /\ Len(published) = Len(Candidates)
        /\ published[1].dev = Candidates[1]
        /\ published[1].topic = "write"
        /\ Watts(published[1]) = call.watts
        /\ published[1].chargeWatts + published[1].dischargeWatts = call.watts
        /\ \A i \in 2..Len(published) :
              published[i].dev = Candidates[i] /\ ZeroFlow(published[i])

\* 399 W on two candidates
C4_Witness ==
    /\ handler = "_update_energy"
    /\ call.watts = Threshold - 1
    /\ Len(Candidates) = NumDev
    /\ Len(published) = NumDev

\* C5: an allocator call with totalWatts >= 400 on count > 0 candidates
\* commands every candidate with floor(totalWatts / count); the assignments
\* sum to at most totalWatts and to more than totalWatts - count.
C5_EvenSplit ==
    (/\ handler = "_update_energy"
     /\ call.kind # "none"
     /\ call.watts >= Threshold
     /\ Candidates # <<>>) =>
        /\ Len(published) = Len(Candidates)
        /\ \A i \in 1..Len(published) :
              /\ published[i].dev = Candidates[i]
              /\ Watts(published[i]) = call.watts \div Len(Candidates)
        /\ SumWatts(published) <= call.watts
        /\ SumWatts(published) > call.watts - Len(Candidates)

\* a split that loses a remainder
C5_Witness ==
    /\ handler = "_update_energy"
    /\ call.kind # "none"
    /\ call.watts >= Threshold
    /\ Len(published) > 1
    /\ SumWatts(published) < call.watts

\* C6: with a discharging aggregate D > 0 over the dischargeable list, a
\* signal p calls the discharge allocator with D + p from the consumed meter
\* and D - p from the produced meter; with D = 0 and a charging aggregate
\* C > 0 over the chargeable list it calls the charge allocator with C - p
\* from the consumed meter and C + p from the produced meter.
C6_SignConvention ==
    (handler = "_update_energy" /\ call.kind # "none") =>
        LET D == SumOver(hypers_discharge, "outputHomePower")
            C == SumOver(hypers_charge, "gridInputPower")
            p == inp.power
        IN  /\ D > 0 =>
                  /\ call.kind = "discharge"
                  /\ inp.src = "consumed" => call.watts = D + p
                  /\ inp.src = "produced" => call.watts = D - p
            /\ (D = 0 /\ C > 0) =>
                  /\ call.kind = "charge"
                  /\ inp.src = "consumed" => call.watts = C - p
                  /\ inp.src = "produced" => call.watts = C + p

\* discharging 300, consumed 100: target 400
C6_Witness ==
    /\ handler = "_update_energy"
    /\ call = [kind |-> "discharge", watts |-> 400]
    /\ SumOver(hypers_discharge, "outputHomePower") = 300
    /\ inp.power = 100
    /\ inp.src = "consumed"

\* C7: a signal that directly follows a signal which recomputed the ranked
\* fleet, in smart matching and before the deadline that recompute set has
\* passed, does not recompute again.
C7_OneRecomputePerWindow ==
    [][(/\ handler = "_update_energy"
        /\ recompute = "ok"
        /\ handler' = "_update_energy"
        /\ operation = OpSmart
        /\ ~(next_update < now)) => recompute' = "none"]_vars

\* C8: in Off and in Manual a signal publishes nothing, recomputes nothing,
\* raises nothing and leaves the mode, both lists, both aggregate limits and
\* the deadline as they were.
C8_NoOpOutsideSmart ==
    [][(handler' = "_update_energy" /\ operation \in {OpOff, OpManual}) =>
          /\ published' = <<>>
          /\ recompute' = "none"
          /\ call' = NoCall
          /\ ~raised'
          /\ UNCHANGED <<operation, hypers_charge, hypers_discharge,
                         max_charge, max_discharge, next_update>>]_vars

\* a signal in Manual with a ranked fleet whose deadline has passed
C8_Witness ==
    /\ handler = "_update_energy"
    /\ operation = OpManual
    /\ hypers_charge # <<>>
    /\ next_update < now

\* C9: an inbound message that does not parse, carries no deviceId or names a
\* device that is not in the catalog changes no sensor state, no mode and no
\* ranked fleet, publishes nothing and lets no exception out.
C9_MalformedDiscarded ==
    [][(/\ handler' = "on_message"
        /\ \/ inp'.json # "object"
           \/ inp'.deviceId = 0
           \/ inp'.deviceId \notin Devices) =>
          /\ UNCHANGED prog
          /\ published' = <<>>
          /\ ~escaped']_vars

\* a message for a device that is not in the catalog, with every hyper known
C9_Witness ==
    /\ handler = "on_message"
    /\ inp.json = "object"
    /\ inp.deviceId = NumDev + 1
    /\ \A h \in Devices : RankingKnown(h)

\* C10: a balancing decision that raises has published no control message.
C10_NoPartialPublish ==
    (handler = "_update_energy" /\ raised) => published = <<>>


\* C11: no exception leaves _update_energy.
C11_NothingEscapes ==
    handler = "_update_energy" => ~escaped

\* C12: a poll tick leaves the mode, both lists, both aggregate limits and
\* the deadline as they were, in every mode, and, when the transport takes
\* its publishes, it sends one read-all-properties request to the read topic
\* of every known device, each exactly once, and nothing else.
C12_PollOnly ==
    [][handler' = "_refresh_data" =>
          /\ UNCHANGED <<operation, hypers_charge, hypers_discharge,
                         max_charge, max_discharge, next_update>>
          /\ \A i \in 1..Len(published') :
                published'[i].topic = "read" /\ published'[i].dev \in Members(hypers)
          /\ ~raised' =>
                /\ Len(published') = Len(hypers)
                /\ \A i \in 1..Len(hypers) :
                      Cardinality({k \in 1..Len(published') :
                                     published'[k].dev = hypers[i]}) = 1]_vars

\* a complete poll in smart matching with a ranked fleet
C12_Witness ==
    /\ handler = "_refresh_data"
    /\ ~raised
    /\ Len(published) = NumDev
    /\ operation = OpSmart
    /\ hypers_discharge # <<>>

\* C13: a non-zero signal whose decision is reached calls exactly one
\* allocator: discharge with D + p * sign when the sum D of outputHomePower
\* over the dischargeable list is > 0; else charge with C + p * sign when the
\* sum C of gridInputPower over the chargeable list is > 0; else charge with
\* p for the produced signal; else discharge with p.
C13_Priority ==
    (handler = "_update_energy" /\ "src" \in DOMAIN inp /\ ~raised) =>
        LET D == SumOver(hypers_discharge, "outputHomePower")
            C == SumOver(hypers_charge, "gridInputPower")
            p == inp.power
            consumed == inp.src = "consumed"
        IN  IF D > 0
            THEN call = [kind |-> "discharge",
                         watts |-> IF consumed THEN D + p ELSE D - p]
            ELSE IF C > 0
            THEN call = [kind |-> "charge",
                         watts |-> IF consumed THEN C - p ELSE C + p]
            ELSE IF inp.src = "produced"
            THEN call = [kind |-> "charge", watts |-> p]
            ELSE call = [kind |-> "discharge", watts |-> p]

\* one hyper discharging and one charging: the discharge allocator is called
C13_Witness ==
    /\ handler = "_update_energy"
    /\ SumOver(hypers_discharge, "outputHomePower") > 0
    /\ SumOver(hypers_charge, "gridInputPower") > 0
    /\ call.kind = "discharge"


\* the lists hold the eligible devices of the present sensor states, in rank
\* order, and the limits are the sums over them
FreshlyRanked ==
    /\ \A h \in Devices : RankingKnown(h)
    /\ Members(hypers_charge) =
          {h \in Devices : sensors[h]["electricLevel"] < sensors[h]["socSet"]}
    /\ Members(hypers_discharge) =
          {h \in Devices : sensors[h]["electricLevel"] > sensors[h]["minSoc"]}
    /\ \A i, j \in 1..Len(hypers_charge) :
          i < j => Level(hypers_charge[i]) <= Level(hypers_charge[j])
    /\ \A i, j \in 1..Len(hypers_discharge) :
          i < j => Level(hypers_discharge[i]) >= Level(hypers_discharge[j])

\* C14: in smart matching a signal that finds both lists empty or the
\* deadline passed runs the recompute before anything else; a decision that
\* goes on to publish commands does so after a completed recompute, with the
\* lists ranked from the present device states, the deadline at now + 5
\* minutes, and every command addressed to a candidate of those lists.
C14_StaleRecomputed ==
    [][(/\ handler' = "_update_energy"
        /\ operation = OpSmart
        /\ \/ hypers_charge = <<>> /\ hypers_discharge = <<>>
           \/ next_update < now) =>
          /\ recompute' # "none"
          /\ next_update' = now + FreshMinutes
          /\ (recompute' = "ok" \/ published' # <<>>) =>
                /\ recompute' = "ok"
                /\ FreshlyRanked'
                /\ \A i \in 1..Len(published') :
                      published'[i].dev \in Members(Candidates')]_vars

\* a decision taken after the deadline of an earlier ranking has passed
C14_Witness ==
    /\ handler = "_update_energy"
    /\ recompute = "ok"
    /\ now > FreshMinutes
    /\ next_update = now + FreshMinutes
    /\ hypers_charge # <<>>
    /\ hypers_discharge # <<>>
    /\ published # <<>>

\* C15: the lists, the limits and the deadline change together or not at
\* all: after a completed recompute the limits are the sums of inputLimit and
\* outputLimit over the new lists and the deadline is now + 5 minutes; a
\* signal that does not recompute, and a recompute that fails part-way,
\* leave the four values and the deadline as they were.
C15_Wholesale ==
    [][handler' = "_update_energy" =>
          IF recompute' = "ok"
          THEN /\ next_update' = now + FreshMinutes
               /\ max_charge' = SumOver(hypers_charge, "inputLimit")'
               /\ max_discharge' = SumOver(hypers_discharge, "outputLimit")'
          ELSE UNCHANGED <<hypers_charge, hypers_discharge, max_charge,
                           max_discharge, next_update>>]_vars

\* C16: a signal of value 0 publishes nothing and calls no allocator,
\* whatever the aggregates are; an allocator called on an empty candidate
\* list publishes nothing.
C16_NothingToDo ==
    handler = "_update_energy" =>
        /\ ("power" \in DOMAIN inp /\ inp.power = 0) =>
              (published = <<>> /\ call = NoCall)
        /\ (call.kind # "none" /\ Candidates = <<>>) => published = <<>>

\* a zero signal while a hyper is discharging
C16_Witness ==
    /\ handler = "_update_energy"
    /\ "power" \in DOMAIN inp
    /\ inp.power = 0
    /\ recompute = "ok"
    /\ SumOver(hypers_discharge, "outputHomePower") > 0


\* C17: the mode is Off until the first mode-set command, every mode-set
\* command (also one whose publish fails) leaves the mode it was given, and
\* no other handler changes the mode.
C17_ModeOnlyBySet ==
    /\ operation = OpOff
    /\ [][/\ IF handler' = "update_operation"
             THEN operation' = inp'.op
             ELSE operation' = operation
          /\ ~mode_set' => operation' = OpOff]_vars

\* a failed decision in smart matching: the mode is still the one set
C17_Witness ==
    /\ handler = "_update_energy"
    /\ raised
    /\ published # <<>>
    /\ operation = OpSmart

\* C18: a poll tick lets no exception out and schedules the next refresh,
\* also when one of its publishes fails; the tick after a failed one requests
\* the properties of every known device when the transport takes its publishes.
C18_PollSurvivesFailure ==
    [][handler' = "_refresh_data" =>
          /\ ~escaped'
          /\ scheduled'
          /\ (handler = "_refresh_data" /\ raised /\ ~raised') =>
                /\ Len(published') = NumDev
                /\ \A d \in Devices :
                      \E i \in 1..Len(published') :
                         published'[i] = GetAll(d)]_vars

\* a tick whose second publish failed
C18_Witness ==
    /\ handler = "_refresh_data"
    /\ raised
    /\ Len(published) = 1
    /\ scheduled

\* C19: no command of a balancing decision carries negative watts.
C19_NonNegativeWatts ==
    handler = "_update_energy" =>
        \A i \in 1..Len(published) :
            published[i].chargeWatts >= 0 /\ published[i].dischargeWatts >= 0

\* C20: a decision whose publishes the transport takes sends one command to
\* each candidate of the list of its allocator call, in rank order, and none
\* to any other device; a command with chargeFlag 1 or with charge watts has
\* chargeFlag 1 and no discharge watts, a command with discharge watts has
\* chargeFlag 0 and no charge watts; control commands come from mode-set
\* commands and from decisions in smart matching only, so none is published
\* before the first mode-set command, and a mode-set to smart matching
\* publishes none.
C20_OneCommandPerCandidate ==
    /\ (handler = "_update_energy" /\ call.kind # "none" /\ ~raised) =>
          /\ Len(published) = Len(Candidates)
          /\ \A i \in 1..Len(published) : published[i].dev = Candidates[i]
    /\ \A i \in 1..Len(published) :
          published[i].topic = "write" =>
             /\ published[i].chargeFlag \in {0, 1}
             /\ published[i].chargeFlag = 1 => published[i].dischargeWatts = 0
             /\ published[i].chargeWatts # 0 => published[i].chargeFlag = 1
             /\ published[i].dischargeWatts # 0 =>
                   (published[i].chargeFlag = 0 /\ published[i].chargeWatts = 0)
             /\ mode_set
             /\ handler \in {"update_operation", "_update_energy"}
             /\ handler = "_update_energy" =>
                   (operation = OpSmart /\ published[i].dev \in Members(Candidates))
    /\ (handler = "update_operation" /\ inp.op = OpSmart) => published = <<>>

\* a charge decision that leaves a hyper of the catalog out
C20_Witness ==
    /\ handler = "_update_energy"
    /\ call.kind = "charge"
    /\ ~raised
    /\ Len(published) = 1
    /\ published[1].chargeFlag = 1
    /\ Len(hypers_discharge) = 1

====
